---- MODULE Spec2Model ----
(***************************************************************************)
(* Model of godfrey-leung/weather_analysis:                                *)
(*   scraper/get_historical_from_open-meteo.py                             *)
(*       get_historical_weather_at_given_coordinates                       *)
(*   scripts/get_open-meteo_data/get_historical.py                         *)
(*       the same function and the __main__ driver loop                    *)
(*                                                                         *)
(* A text (str) is a sequence of one-character strings, so that parsing a  *)
(* date is computed from the characters.  Latitude and longitude are       *)
(* fixed-point numbers in units of 1/10000 degree (Deg).  Instants are     *)
(* integer seconds since the epoch.  A value of a provider array is the    *)
(* pair <<variable name, position>>: the arrays are only copied, never     *)
(* computed with.                                                          *)
(***************************************************************************)
EXTENDS Integers, Sequences, FiniteSets, TLC

\* ------------------------------------------------------------- bounds

\* longest value array a provider variable carries
MaxRows == 3
\* largest provider interval, in seconds
MaxInterval == 2
\* largest TimeEnd - Time of a provider response, in seconds
MaxSpan == 4
\* most airports in the driver's configuration
MaxAirports == 2

\* ------------------------------------------------------------- numbers

\* n degrees in units of 1/10000 degree
Deg(n) == n * 10000

\* ------------------------------------------------ datetime.date parsing

Digits == {"0", "1", "2", "3", "4", "5", "6", "7", "8", "9"}

DigitVal(c) ==
    CASE c = "0" -> 0 [] c = "1" -> 1 [] c = "2" -> 2 [] c = "3" -> 3
      [] c = "4" -> 4 [] c = "5" -> 5 [] c = "6" -> 6 [] c = "7" -> 7
      [] c = "8" -> 8 [] c = "9" -> 9

\* the character at position p (1-based); past the end is the terminator
CharAt(s, p) == IF p >= 1 /\ p <= Len(s) THEN s[p] ELSE "NUL"

\* parse_digits: n decimal digits at p, or -1
RECURSIVE ParseDigits(_, _, _)
ParseDigits(s, p, n) ==
    IF n = 0 THEN 0
    ELSE IF CharAt(s, p + n - 1) \notin Digits THEN -1
    ELSE LET hi == ParseDigits(s, p, n - 1)
         IN  IF hi = -1 THEN -1 ELSE 10 * hi + DigitVal(CharAt(s, p + n - 1))

IsLeap(y) == y % 4 = 0 /\ (y % 100 # 0 \/ y % 400 = 0)

DaysInMonth(y, m) ==
    IF m = 2 THEN (IF IsLeap(y) THEN 29 ELSE 28)
    ELSE IF m \in {4, 6, 9, 11} THEN 30 ELSE 31

ValueError == [ok |-> FALSE, year |-> 0, month |-> 0, day |-> 0]

\* datetime.date(year, month, day): the range checks of the constructor
NewDate(y, m, d) ==
    IF y < 1 \/ y > 9999 THEN ValueError
    ELSE IF m < 1 \/ m > 12 THEN ValueError
    ELSE IF d < 1 \/ d > DaysInMonth(y, m) THEN ValueError
    ELSE [ok |-> TRUE, year |-> y, month |-> m, day |-> d]

\* date.fromisoformat before Python 3.11: exactly YYYY-MM-DD, ten characters
FromIsoStrict(s) ==
    LET y == ParseDigits(s, 1, 4)
        m == ParseDigits(s, 6, 2)
        d == ParseDigits(s, 9, 2)
    IN  IF Len(s) # 10 THEN ValueError
        ELSE IF y = -1 \/ CharAt(s, 5) # "-" \/ m = -1
                \/ CharAt(s, 8) # "-" \/ d = -1 THEN ValueError
        ELSE NewDate(y, m, d)

\* date.fromisoformat from Python 3.11 on: 7, 8 or 10 characters, the
\* separators optional (week dates, "W", are outside the inputs modelled)
FromIsoRelaxed(s) ==
    LET y   == ParseDigits(s, 1, 4)
        sep == CharAt(s, 5) = "-"
        pm  == IF sep THEN 6 ELSE 5
        m   == ParseDigits(s, pm, 2)
        pd  == IF sep THEN pm + 3 ELSE pm + 2
        d   == ParseDigits(s, pd, 2)
    IN  IF Len(s) \notin {7, 8, 10} THEN ValueError
        ELSE IF y = -1 \/ m = -1 THEN ValueError
        ELSE IF sep /\ CharAt(s, pm + 2) # "-" THEN ValueError
        ELSE IF d = -1 THEN ValueError
        ELSE NewDate(y, m, d)

\* dt.date.fromisoformat(s) under the interpreter in use
fromisoformat(relaxed, s) ==
    IF relaxed THEN FromIsoRelaxed(s) ELSE FromIsoStrict(s)

\* a fault: the comparison lets equal dates count as earlier
DateLessOrEqual(a, b) ==
    \/ a.year < b.year
    \/ a.year = b.year /\ a.month < b.month
    \/ a.year = b.year /\ a.month = b.month /\ a.day <= b.day

\* date.__lt__: a < b on calendar dates
DateLess(a, b) ==
    \/ a.year < b.year
    \/ a.year = b.year /\ a.month < b.month
    \/ a.year = b.year /\ a.month = b.month /\ a.day < b.day

\* str(s): the text as one string, for f-strings and file names
RECURSIVE Str(_)
Str(s) == IF s = <<>> THEN "" ELSE s[1] \o Str(Tail(s))

\* ------------------------------------------------------------- inputs

D_2023_12_31 == <<"2", "0", "2", "3", "-", "1", "2", "-", "3", "1">>
D_2024_01_01 == <<"2", "0", "2", "4", "-", "0", "1", "-", "0", "1">>
D_2024_02_01 == <<"2", "0", "2", "4", "-", "0", "2", "-", "0", "1">>
\* month 13, day 40
D_2024_13_40 == <<"2", "0", "2", "4", "-", "1", "3", "-", "4", "0">>
\* 29 February of a year that is not a leap year
D_2023_02_29 == <<"2", "0", "2", "3", "-", "0", "2", "-", "2", "9">>
\* ISO 8601 basic format, no separators
D_20240101 == <<"2", "0", "2", "4", "0", "1", "0", "1">>
\* day/month/year with slashes
D_01_02_2024 == <<"0", "1", "/", "0", "2", "/", "2", "0", "2", "4">>

DateStrings ==
    {D_2023_12_31, D_2024_01_01, D_2024_02_01, D_2024_13_40, D_2023_02_29,
     D_20240101, D_01_02_2024}

\* -91, -90, 51.5, 90, 91 degrees
Latitudes == {Deg(-91), Deg(-90), 515000, Deg(90), Deg(91)}

\* -1, -0.1278 (London), 0, 180, 181 degrees
Longitudes == {Deg(-1), -1278, Deg(0), Deg(180), Deg(181)}

DefaultFields == <<"snowfall", "wind_speed_10m", "wind_gusts_10m">>

FieldLists ==
    {DefaultFields,
     <<"snowfall">>,
     <<"wind_speed_10m", "snowfall">>,
     <<"visibility", "snowfall", "wind_speed_10m">>,
     <<"snowfall", "wind_speed_10m", "wind_gusts_10m", "visibility">>}

\* ------------------------------------------------------------- values

url == "https://archive-api.open-meteo.com/v1/archive"

NoError == [kind |-> "none", message |-> <<>>]

\* raise InvalidParameters(message); the message is the f-string's pieces
InvalidParameters(message) == [kind |-> "InvalidParameters", message |-> message]

LatitudeMessage ==
    <<"Invalid latitude given! Latitude must be within -90 to 90">>

LongitudeMessage ==
    <<"Invalid longitude given! Longitude must be within 0 to 180">>

DateFormatMessage(sd, ed) ==
    <<"Invalid start_date ", Str(sd), " or end_date ", Str(ed),
      " found. Please given the start and end dates in ISO format, i.e. YYYY-MM-DD">>

DateOrderMessage == <<"End date cannot be before start date!">>

\* what the provider client raises once its retries are used up
ProviderErrors ==
    {[kind |-> "OpenMeteoRequestsError", message |-> <<"provider refused the request">>],
     [kind |-> "RetryError", message |-> <<"retries exhausted">>]}

\* DataFrame(data=...) given columns of different lengths
LengthError ==
    [kind |-> "ValueError", message |-> <<"All arrays must be of the same length">>]

\* hourly.Variables(j) read past the variables the response holds
VariablesReadError ==
    [kind |-> "Exception", message |-> <<"read past the end of the response buffer">>]

NoParams ==
    [latitude |-> 0, longitude |-> 0, start_date |-> <<>>, end_date |-> <<>>,
     hourly |-> <<>>]

NoResponse == [Time |-> 0, TimeEnd |-> 0, Interval |-> 0, Variables |-> <<>>]

NoTable == [columns |-> <<>>, data |-> <<>>]

\* ------------------------------------------------------------- validation

\* a fault: longitude is checked before latitude
ValidateLongitudeFirst(relaxed, lat, lon, sd, ed) ==
    IF lon < Deg(0) \/ lon > Deg(180)
    THEN InvalidParameters(LongitudeMessage)
    ELSE IF lat < Deg(-90) \/ lat > Deg(90)
    THEN InvalidParameters(LatitudeMessage)
    ELSE IF ~fromisoformat(relaxed, sd).ok \/ ~fromisoformat(relaxed, ed).ok
    THEN InvalidParameters(DateFormatMessage(sd, ed))
    ELSE IF DateLess(fromisoformat(relaxed, ed), fromisoformat(relaxed, sd))
    THEN InvalidParameters(DateOrderMessage)
    ELSE NoError

\* a fault: the bounds of both ranges are refused
ValidateExclusiveBounds(relaxed, lat, lon, sd, ed) ==
    IF lat <= Deg(-90) \/ lat >= Deg(90)
    THEN InvalidParameters(LatitudeMessage)
    ELSE IF lon <= Deg(0) \/ lon >= Deg(180)
    THEN InvalidParameters(LongitudeMessage)
    ELSE IF ~fromisoformat(relaxed, sd).ok \/ ~fromisoformat(relaxed, ed).ok
    THEN InvalidParameters(DateFormatMessage(sd, ed))
    ELSE IF DateLess(fromisoformat(relaxed, ed), fromisoformat(relaxed, sd))
    THEN InvalidParameters(DateOrderMessage)
    ELSE NoError

\* a variant: longitude is accepted from -180 to 180
ValidateSignedLongitude(relaxed, lat, lon, sd, ed) ==
    IF lat < Deg(-90) \/ lat > Deg(90)
    THEN InvalidParameters(LatitudeMessage)
    ELSE IF lon < Deg(-180) \/ lon > Deg(180)
    THEN InvalidParameters(LongitudeMessage)
    ELSE IF ~fromisoformat(relaxed, sd).ok \/ ~fromisoformat(relaxed, ed).ok
    THEN InvalidParameters(DateFormatMessage(sd, ed))
    ELSE IF DateLess(fromisoformat(relaxed, ed), fromisoformat(relaxed, sd))
    THEN InvalidParameters(DateOrderMessage)
    ELSE NoError

\* lines 69-90: the first violated rule raises; NoError when none is
Validate(relaxed, lat, lon, sd, ed) ==
    IF lat < Deg(-90) \/ lat > Deg(90)
    THEN InvalidParameters(LatitudeMessage)
    ELSE IF lon < Deg(0) \/ lon > Deg(180)
    THEN InvalidParameters(LongitudeMessage)
    ELSE IF ~fromisoformat(relaxed, sd).ok \/ ~fromisoformat(relaxed, ed).ok
    THEN InvalidParameters(DateFormatMessage(sd, ed))
    ELSE IF DateLess(fromisoformat(relaxed, ed), fromisoformat(relaxed, sd))
    THEN InvalidParameters(DateOrderMessage)
    ELSE NoError

\* ------------------------------------------------------------- reshape

\* a fault: the range includes its end (inclusive="both")
RECURSIVE DateRangeClosed(_, _, _)
DateRangeClosed(start, end, freq) ==
    IF start <= end THEN <<start>> \o DateRangeClosed(start + freq, end, freq)
    ELSE <<>>

\* pd.date_range(start, end, freq, inclusive="left"): start, start + freq, ...
\* up to but excluding end
RECURSIVE DateRange(_, _, _)
DateRange(start, end, freq) ==
    IF start < end THEN <<start>> \o DateRange(start + freq, end, freq) ELSE <<>>

\* an array of n values that are not the provider's
Garbage(n) == [i \in 1..n |-> <<"garbage", i>>]

\* hourly.Variables(j).ValuesAsNumpy(), j counted from 0; past the variables of
\* the response the read is unchecked and yields whatever lies there
HourlyVariable(resp, j, glen) ==
    IF j + 1 <= Len(resp.Variables) THEN resp.Variables[j + 1]
    ELSE Garbage(glen[j])

\* lines 113-131: the table, or the error that ends the call
ReshapeResponse(resp, read_fails, glen) ==
    LET hourly_snowfall       == HourlyVariable(resp, 0, glen)
        hourly_wind_speed_10m == HourlyVariable(resp, 1, glen)
        hourly_wind_gusts_10m == HourlyVariable(resp, 2, glen)
        date == DateRange(resp.Time, resp.TimeEnd, resp.Interval)
    IN  IF Len(resp.Variables) < 3 /\ read_fails
        THEN [table |-> NoTable, error |-> VariablesReadError]
        ELSE IF \/ Len(hourly_snowfall) # Len(date)
                \/ Len(hourly_wind_speed_10m) # Len(date)
                \/ Len(hourly_wind_gusts_10m) # Len(date)
        THEN [table |-> NoTable, error |-> LengthError]
        ELSE [table |->
                [columns |-> <<"date", "snowfall", "wind_speed_10m", "wind_gusts_10m">>,
                 data |-> <<date, hourly_snowfall, hourly_wind_speed_10m,
                            hourly_wind_gusts_10m>>],
              error |-> NoError]

\* ------------------------------------------------------------- provider

\* hourly.Time() of a response: 2024-01-01T00:00:00Z
Times == {1704067200}

\* the values the provider holds for a variable
ProviderArray(name, n) == [i \in 1..n |-> <<name, i>>]

\* the responses the provider may give to a request for the variables hourly:
\* one array per requested variable, in request order, all of n values, or all
\* but one (the provider's contract is equal lengths; the client checks nothing)
Responses(hourly) ==
    {[Time |-> t, TimeEnd |-> t + span, Interval |-> s,
      Variables |-> [j \in 1..Len(hourly) |->
                        ProviderArray(hourly[j], IF j = k THEN n - 1 ELSE n)]] :
        t \in Times, span \in 0..MaxSpan, s \in 1..MaxInterval,
        n \in 0..MaxRows, k \in 0..Len(hourly)}

\* ------------------------------------------------------------- driver inputs

AirportNames == <<"NRT", "LHR", "SYD">>

\* Narita 35.7720N 140.3929E; Heathrow 51.4700N 0.4543W
Locations ==
    {[latitude |-> 357720, longitude |-> 1403929],
     [latitude |-> 514700, longitude |-> -4543]}

NoConfig ==
    [export_parent_path |-> "", start_date |-> <<>>, end_date |-> <<>>,
     selected_airports |-> <<>>]

\* config/get_historical_weather.yaml; selected_airports in file order
Configs ==
    {[export_parent_path |-> "data", start_date |-> d[1], end_date |-> d[2],
      selected_airports |->
          [k \in 1..n |-> [name |-> AirportNames[k], location |-> loc[k]]]] :
        d \in {<<D_2024_01_01, D_2024_02_01>>, <<D_2024_02_01, D_2024_01_01>>,
               <<D_2024_13_40, D_2024_02_01>>},
        n \in 0..MaxAirports,
        loc \in [1..MaxAirports -> Locations]}

\* directory / f'{export_parent_folder}/{selected_airport}'
SaveDir(export_parent_folder, selected_airport) ==
    export_parent_folder \o "/" \o selected_airport

\* save_dir / f'airport_{selected_airport}_weather_{start_date}_to_{end_date}.csv'
CsvPath(save_dir, selected_airport, sd, ed) ==
    save_dir \o "/" \o "airport_" \o selected_airport \o "_weather_" \o Str(sd)
        \o "_to_" \o Str(ed) \o ".csv"

\* ------------------------------------------------------------- state

VARIABLES
    relaxed_iso,    \* the interpreter is Python 3.11 or later
    pc,             \* position in get_historical_weather_at_given_coordinates
    latitude, longitude, start_date, end_date, fields,
    openmeteo,      \* the cache session, retry session and client are built
    params,         \* the request parameters, once built
    api_calls,      \* the weather_api invocations of this call, in order
    client_raised,  \* what the provider client raised, if it did
    response,       \* responses[0]
    result,         \* the returned DataFrame
    raised,         \* the exception that left the function
    config,         \* the driver's configuration
    dpc,            \* position in the driver
    airport,        \* index of the driver's current airport, 0 outside it
    df,             \* the driver's df
    dirs,           \* directories that exist
    files,          \* files written
    log             \* what happened, in order: <<operation, airport>>

args == <<latitude, longitude, start_date, end_date, fields>>
frame == <<openmeteo, params, api_calls, client_raised, response, result, raised>>
driver == <<config, dpc, airport, df, dirs, files>>
vars == <<relaxed_iso, pc, args, frame, driver, log>>

NoFrame ==
    /\ openmeteo = FALSE
    /\ params = NoParams
    /\ api_calls = <<>>
    /\ client_raised = NoError
    /\ response = NoResponse
    /\ result = NoTable
    /\ raised = NoError

NoArgs ==
    /\ latitude = 0
    /\ longitude = 0
    /\ start_date = <<>>
    /\ end_date = <<>>
    /\ fields = <<>>

\* a caller about to call the function
Init ==
    /\ relaxed_iso \in BOOLEAN
    /\ pc = "idle"
    /\ NoArgs
    /\ NoFrame
    /\ config = NoConfig
    /\ dpc = "none"
    /\ airport = 0
    /\ df = NoTable
    /\ dirs = {}
    /\ files = {}
    /\ log = <<>>

\* the driver after it has loaded its configuration (lines 141-156)
DriverInit ==
    /\ relaxed_iso \in BOOLEAN
    /\ pc = "idle"
    /\ NoArgs
    /\ NoFrame
    /\ config \in Configs
    /\ dpc = "loop"
    /\ airport = 1
    /\ df = NoTable
    /\ dirs \in SUBSET {SaveDir(config.export_parent_path, AirportNames[k]) :
                           k \in 1..Len(config.selected_airports)}
    /\ files = {}
    /\ log = <<>>

\* ------------------------------------------------------------- the function

\* a direct call with the given arguments
Call ==
    /\ dpc = "none"
    /\ pc = "idle"
    /\ log = <<>>
    /\ \E lat \in Latitudes, lon \in Longitudes, sd \in DateStrings,
          ed \in DateStrings, f \in FieldLists :
         /\ latitude' = lat
         /\ longitude' = lon
         /\ start_date' = sd
         /\ end_date' = ed
         /\ fields' = f
    /\ pc' = "setup"
    /\ log' = Append(log, <<"call", airport>>)
    /\ UNCHANGED <<relaxed_iso, frame, driver>>

\* lines 61-63: CachedSession, retry, Client
SetupClient ==
    /\ pc = "setup"
    /\ openmeteo' = TRUE
    /\ pc' = "validate"
    /\ log' = Append(log, <<"client", airport>>)
    /\ UNCHANGED <<relaxed_iso, args, params, api_calls, client_raised,
                   response, result, raised, driver>>

\* lines 69-98: the checks, then the request parameters
ValidateParameters ==
    /\ pc = "validate"
    /\ LET err == Validate(relaxed_iso, latitude, longitude, start_date, end_date)
       IN  IF err # NoError
           THEN /\ raised' = err
                /\ pc' = "raised"
                /\ UNCHANGED params
           ELSE /\ params' = [latitude |-> latitude, longitude |-> longitude,
                              start_date |-> start_date, end_date |-> end_date,
                              hourly |-> fields]
                /\ pc' = "request"
                /\ UNCHANGED raised
    /\ UNCHANGED <<relaxed_iso, args, openmeteo, api_calls, client_raised,
                   response, result, driver, log>>

\* a fault: when the client raises, the function asks once more
WeatherApiRetry ==
    /\ pc = "request"
    /\ api_calls' = Append(api_calls, [url |-> url, params |-> params])
    /\ log' = Append(log, <<"weather_api", airport>>)
    /\ \/ /\ response' \in Responses(params.hourly)
          /\ pc' = "responded"
          /\ UNCHANGED <<client_raised, raised>>
       \/ /\ client_raised' \in ProviderErrors
          /\ IF api_calls = <<>>
             THEN UNCHANGED <<raised, pc>>
             ELSE raised' = client_raised' /\ pc' = "raised"
          /\ UNCHANGED response
    /\ UNCHANGED <<relaxed_iso, args, openmeteo, params, result, driver>>

\* line 101 and 104: one weather_api invocation; the client answers or raises
WeatherApi ==
    /\ pc = "request"
    /\ api_calls' = Append(api_calls, [url |-> url, params |-> params])
    /\ log' = Append(log, <<"weather_api", airport>>)
    /\ \/ /\ response' \in Responses(params.hourly)
          /\ pc' = "responded"
          /\ UNCHANGED <<client_raised, raised>>
       \/ /\ client_raised' \in ProviderErrors
          /\ raised' = client_raised'
          /\ pc' = "raised"
          /\ UNCHANGED response
    /\ UNCHANGED <<relaxed_iso, args, openmeteo, params, result, driver>>

\* lines 113-131: the table from the response
Reshape ==
    /\ pc = "responded"
    /\ \E read_fails \in BOOLEAN, glen \in [1..2 -> 0..MaxRows] :
         LET out == ReshapeResponse(response, read_fails, glen)
         IN  /\ result' = out.table
             /\ raised' = out.error
             /\ pc' = IF out.error = NoError THEN "returned" ELSE "raised"
    /\ UNCHANGED <<relaxed_iso, args, openmeteo, params, api_calls,
                   client_raised, response, driver, log>>

FunctionStep ==
    \/ SetupClient
    \/ ValidateParameters
    \/ WeatherApi
    \/ Reshape

Next ==
    \/ Call
    \/ FunctionStep

Spec == Init /\ [][Next]_vars

\* ------------------------------------------------------------- the driver

selected_airport == config.selected_airports[airport].name
location == config.selected_airports[airport].location
save_dir == SaveDir(config.export_parent_path, selected_airport)

\* lines 158-170: the next airport of the configuration; the call's arguments
DriverCall ==
    /\ dpc = "loop"
    /\ airport <= Len(config.selected_airports)
    /\ latitude' = location.latitude
    /\ longitude' = location.longitude
    /\ start_date' = config.start_date
    /\ end_date' = config.end_date
    /\ fields' = DefaultFields
    /\ pc' = "setup"
    /\ dpc' = "fetch"
    /\ log' = Append(log, <<"call", airport>>)
    /\ UNCHANGED <<relaxed_iso, frame, config, airport, df, dirs, files>>

\* lines 165 and 172-174: the call returned; the directory, if absent
DriverMakeDirs ==
    /\ dpc = "fetch"
    /\ pc = "returned"
    /\ df' = result
    /\ IF save_dir \notin dirs
       THEN /\ dirs' = dirs \cup {save_dir}
            /\ log' = log \o <<<<"returned", airport>>, <<"makedirs", airport>>>>
       ELSE /\ log' = Append(log, <<"returned", airport>>)
            /\ UNCHANGED dirs
    /\ pc' = "idle"
    /\ latitude' = 0
    /\ longitude' = 0
    /\ start_date' = <<>>
    /\ end_date' = <<>>
    /\ fields' = <<>>
    /\ openmeteo' = FALSE
    /\ params' = NoParams
    /\ api_calls' = <<>>
    /\ client_raised' = NoError
    /\ response' = NoResponse
    /\ result' = NoTable
    /\ raised' = NoError
    /\ dpc' = "save"
    /\ UNCHANGED <<relaxed_iso, config, airport, files>>

\* lines 176-179: df.to_csv, then the next airport
DriverToCsv ==
    /\ dpc = "save"
    /\ files' = files \cup
           {CsvPath(save_dir, selected_airport, config.start_date, config.end_date)}
    /\ log' = Append(log, <<"to_csv", airport>>)
    /\ df' = NoTable
    /\ airport' = airport + 1
    /\ dpc' = "loop"
    /\ UNCHANGED <<relaxed_iso, pc, args, frame, config, dirs>>

\* a fault: the error is swallowed and the loop goes on to the next airport
DriverSkipFailed ==
    /\ dpc = "fetch"
    /\ pc = "raised"
    /\ pc' = "idle"
    /\ latitude' = 0
    /\ longitude' = 0
    /\ start_date' = <<>>
    /\ end_date' = <<>>
    /\ fields' = <<>>
    /\ openmeteo' = FALSE
    /\ params' = NoParams
    /\ api_calls' = <<>>
    /\ client_raised' = NoError
    /\ response' = NoResponse
    /\ result' = NoTable
    /\ raised' = NoError
    /\ airport' = airport + 1
    /\ dpc' = "loop"
    /\ UNCHANGED <<relaxed_iso, config, df, dirs, files, log>>

\* the call raised: nothing catches it and the run ends
DriverAbort ==
    /\ dpc = "fetch"
    /\ pc = "raised"
    /\ dpc' = "aborted"
    /\ UNCHANGED <<relaxed_iso, pc, args, frame, config, airport, df, dirs,
                   files, log>>

\* the loop is over
DriverEnd ==
    /\ dpc = "loop"
    /\ airport > Len(config.selected_airports)
    /\ dpc' = "done"
    /\ UNCHANGED <<relaxed_iso, pc, args, frame, config, airport, df, dirs,
                   files, log>>

DriverNext ==
    \/ DriverCall
    \/ FunctionStep
    \/ DriverMakeDirs
    \/ DriverToCsv
    \/ DriverAbort
    \/ DriverEnd

DriverSpec == DriverInit /\ [][DriverNext]_vars

\* ------------------------------------------------------------- vocabulary

LatInRange == latitude >= Deg(-90) /\ latitude <= Deg(90)
LonInRange == longitude >= Deg(0) /\ longitude <= Deg(180)

\* s is a calendar date written YYYY-MM-DD
IsYMD(s) ==
    /\ Len(s) = 10
    /\ s[5] = "-"
    /\ s[8] = "-"
    /\ \A i \in {1, 2, 3, 4, 6, 7, 9, 10} : s[i] \in Digits
    /\ ParseDigits(s, 1, 4) >= 1
    /\ ParseDigits(s, 6, 2) \in 1..12
    /\ ParseDigits(s, 9, 2) \in 1..DaysInMonth(ParseDigits(s, 1, 4), ParseDigits(s, 6, 2))

\* the day number YYYYMMDD of a YYYY-MM-DD text: ordered as the calendar is
DayNumber(s) ==
    10000 * ParseDigits(s, 1, 4) + 100 * ParseDigits(s, 6, 2) + ParseDigits(s, 9, 2)

\* the checks have been run
Validated == pc \in {"request", "responded", "returned", "raised"}

\* the call is over
Ended == pc \in {"returned", "raised"}

\* the validator rejects the arguments of the call
Rejected ==
    Validate(relaxed_iso, latitude, longitude, start_date, end_date) # NoError

\* the events of the log for airport k, in order
RECURSIVE EventsOf(_, _)
EventsOf(l, k) ==
    IF l = <<>> THEN <<>>
    ELSE IF l[1][2] = k THEN <<l[1][1]>> \o EventsOf(Tail(l), k)
    ELSE EventsOf(Tail(l), k)

Count(l, op, k) == Cardinality({i \in 1..Len(l) : l[i] = <<op, k>>})

\* ------------------------------------------------------------- claims

\* C1: for every requested field list the request carries that list in order
\* and the returned table has the column date followed by one column per
\* requested field, in request order, column i holding the provider's
\* positional variable i.
C1_ColumnsFollowFields ==
    pc = "returned" =>
        /\ Len(api_calls) = 1
        /\ api_calls[1].params.hourly = fields
        /\ result.columns = <<"date">> \o fields
        /\ Len(result.data) = 1 + Len(fields)
        /\ \A i \in 1..Len(fields) : result.data[i + 1] = response.Variables[i]

\* C2 as stated: a call the validator rejects raises InvalidParameters with no
\* provider request and no other effect: no cache session, retry session or
\* client is constructed before the outcome of the validation is known.
C2_NoEffectBeforeValidation ==
    Rejected =>
        /\ api_calls = <<>>
        /\ openmeteo = FALSE
        /\ pc = "raised" => raised.kind = "InvalidParameters"

\* The part of C2 that holds: a call the validator rejects ends by raising
\* InvalidParameters with no provider request issued and no table; the
\* sessions and the client exist by then, but nothing is sent through them.
C2_RaisesBeforeRequest ==
    Rejected =>
        /\ api_calls = <<>>
        /\ \A i \in 1..Len(log) : log[i][1] # "weather_api"
        /\ pc \in {"idle", "setup", "validate", "raised"}
        /\ response = NoResponse
        /\ result = NoTable
        /\ pc \in {"validate", "raised"} => openmeteo = TRUE
        /\ pc = "raised" => raised.kind = "InvalidParameters"

C2_Witness ==
    /\ pc = "raised"
    /\ Rejected
    /\ raised.kind = "InvalidParameters"
    /\ openmeteo = TRUE

\* C3: the checks fail fast in the order latitude, longitude, date format, date
\* order.  Whenever latitude or longitude is out of range, whatever else is
\* wrong, the one error raised is the latitude error if latitude is out of
\* range and the longitude error otherwise; a date error is raised only with
\* both in range, and the date-order error only when both dates parsed.  The
\* error is always a single one of the four, never a combination.
C3_FirstViolatedRule ==
    Validated =>
        /\ ~LatInRange =>
               pc = "raised" /\ raised = InvalidParameters(LatitudeMessage)
        /\ LatInRange /\ ~LonInRange =>
               pc = "raised" /\ raised = InvalidParameters(LongitudeMessage)
        /\ raised.kind = "InvalidParameters" =>
               raised.message \in
                   {LatitudeMessage, LongitudeMessage, DateOrderMessage,
                    DateFormatMessage(start_date, end_date)}
        /\ raised.message = DateFormatMessage(start_date, end_date) =>
               LatInRange /\ LonInRange
        /\ raised.message = DateOrderMessage =>
               /\ LatInRange /\ LonInRange
               /\ fromisoformat(relaxed_iso, start_date).ok
               /\ fromisoformat(relaxed_iso, end_date).ok

\* latitude 91, longitude 181 and a malformed date at once: the latitude error
C3_Witness ==
    /\ pc = "raised"
    /\ latitude = Deg(91)
    /\ longitude = Deg(181)
    /\ start_date = D_2024_13_40
    /\ raised = InvalidParameters(LatitudeMessage)

C3_WitnessLongitude ==
    /\ pc = "raised"
    /\ latitude = Deg(90)
    /\ longitude = Deg(181)
    /\ start_date = D_2024_13_40
    /\ raised = InvalidParameters(LongitudeMessage)

\* C4: latitude in [-90, 90], longitude in [0, 180] and two YYYY-MM-DD dates
\* with start <= end (equal included) pass the checks: no InvalidParameters,
\* and the call goes on to the provider request.
C4_ValidInputsProceed ==
    /\ Validated
    /\ LatInRange /\ LonInRange
    /\ IsYMD(start_date) /\ IsYMD(end_date)
    /\ DayNumber(start_date) <= DayNumber(end_date)
    => /\ raised.kind # "InvalidParameters"
       /\ pc = "request" \/ Len(api_calls) = 1
       /\ params.hourly = fields /\ params.latitude = latitude
       /\ params.longitude = longitude
       /\ params.start_date = start_date /\ params.end_date = end_date

\* the corner -90, 180 with start = end, and the request issued
C4_Witness ==
    /\ latitude = Deg(-90)
    /\ longitude = Deg(180)
    /\ start_date = D_2024_01_01
    /\ end_date = D_2024_01_01
    /\ pc = "responded"
    /\ Len(api_calls) = 1

\* C5: with latitude in range, a longitude below 0 or above 180 raises the
\* longitude error, and 0 and 180 do not.
C5_LongitudeRange ==
    Validated /\ LatInRange =>
        /\ longitude < Deg(0) \/ longitude > Deg(180) =>
               pc = "raised" /\ raised = InvalidParameters(LongitudeMessage)
        /\ longitude \in {Deg(0), Deg(180)} =>
               raised # InvalidParameters(LongitudeMessage)

\* longitude -0.1278 is refused
C5_Witness ==
    /\ pc = "raised"
    /\ LatInRange
    /\ longitude = -1278
    /\ raised = InvalidParameters(LongitudeMessage)

\* C6: with latitude and longitude in range, a start_date or end_date that is
\* not a YYYY-MM-DD calendar date makes the call raise InvalidParameters,
\* never go on to the provider, with a message that holds both strings and
\* names the format.
C6_MalformedDateRaises ==
    /\ Validated
    /\ LatInRange /\ LonInRange
    /\ ~IsYMD(start_date) \/ ~IsYMD(end_date)
    => /\ pc = "raised"
       /\ api_calls = <<>>
       /\ raised.kind = "InvalidParameters"
       /\ raised.message = DateFormatMessage(start_date, end_date)
       /\ \E i \in 1..Len(raised.message) : raised.message[i] = Str(start_date)
       /\ \E i \in 1..Len(raised.message) : raised.message[i] = Str(end_date)

\* C7: with latitude and longitude in range and two YYYY-MM-DD dates, the
\* date-order error is raised exactly when end_date is an earlier calendar
\* date than start_date; equal dates pass.
C7_EndBeforeStart ==
    /\ Validated
    /\ LatInRange /\ LonInRange
    /\ IsYMD(start_date) /\ IsYMD(end_date)
    => ((pc = "raised" /\ raised = InvalidParameters(DateOrderMessage))
            <=> DayNumber(end_date) < DayNumber(start_date))

\* 2024-02-01 to 2024-01-01 is refused
C7_Witness ==
    /\ pc = "raised"
    /\ start_date = D_2024_02_01
    /\ end_date = D_2024_01_01
    /\ raised = InvalidParameters(DateOrderMessage)

\* equal dates pass
C7_WitnessEqual ==
    /\ pc = "request"
    /\ start_date = D_2024_02_01
    /\ end_date = D_2024_02_01

\* the number of k >= 0 with Time + k * Interval < TimeEnd
RowCount(resp) ==
    Cardinality({k \in 0..(resp.TimeEnd - resp.Time) :
                    resp.Time + k * resp.Interval < resp.TimeEnd})

\* the arrays the function reads all hold RowCount values
ArraysMatch(resp) ==
    /\ Len(resp.Variables) >= 3
    /\ \A j \in 1..3 : Len(resp.Variables[j]) = RowCount(resp)

CompleteTable(t) ==
    /\ Len(t.columns) = Len(t.data)
    /\ Len(t.data) >= 2
    /\ \A c \in 1..Len(t.data) : Len(t.data[c]) = Len(t.data[1])

\* C9: a call with valid parameters invokes the provider exactly once; if the
\* invocation raises, that error leaves the function unchanged, with no
\* further invocation and no table; every call ends with a complete table or
\* with an error and no table.
C9_OneRequestErrorPropagates ==
    Ended =>
        /\ ~Rejected => Len(api_calls) = 1
        /\ client_raised # NoError =>
               /\ pc = "raised"
               /\ raised = client_raised
               /\ result = NoTable
               /\ response = NoResponse
        /\ \/ pc = "returned" /\ raised = NoError /\ CompleteTable(result)
           \/ pc = "raised" /\ raised # NoError /\ result = NoTable

\* the provider's client raised and the call ended with that error
C9_Witness ==
    /\ pc = "raised"
    /\ ~Rejected
    /\ client_raised \in ProviderErrors
    /\ raised = client_raised
    /\ Len(api_calls) = 1

\* the name the driver gives the CSV of airport k
ExpectedCsv(k) ==
    config.export_parent_path \o "/" \o config.selected_airports[k].name
        \o "/airport_" \o config.selected_airports[k].name \o "_weather_"
        \o Str(config.start_date) \o "_to_" \o Str(config.end_date) \o ".csv"

\* what the log may hold for one airport: the steps in their order
AirportRuns ==
    {<<>>, <<"call">>, <<"call", "client">>,
     <<"call", "client", "weather_api">>,
     <<"call", "client", "weather_api", "returned">>,
     <<"call", "client", "weather_api", "returned", "makedirs">>,
     <<"call", "client", "weather_api", "returned", "to_csv">>,
     <<"call", "client", "weather_api", "returned", "makedirs", "to_csv">>}

\* the airports are handled one after another in configuration order, each
\* by fetch, directory if absent, one CSV of the expected name
DriverOrder ==
    /\ \A i \in 1..(Len(log) - 1) : log[i][2] <= log[i + 1][2]
    /\ \A k \in 1..Len(config.selected_airports) : EventsOf(log, k) \in AirportRuns
    /\ \A k \in 1..Len(config.selected_airports) :
           /\ k < airport => Count(log, "to_csv", k) = 1
           /\ k > airport => EventsOf(log, k) = <<>>
    /\ files = {ExpectedCsv(k) : k \in {j \in 1..Len(config.selected_airports) :
                                            Count(log, "to_csv", j) = 1}}
    /\ \A k \in 1..Len(config.selected_airports) :
           Count(log, "to_csv", k) = 1 =>
               SaveDir(config.export_parent_path, config.selected_airports[k].name)
                   \in dirs
    /\ dpc = "done" => airport = Len(config.selected_airports) + 1

\* C10 as stated: ... and when the fetch of an airport raises the run stops
\* there, the CSVs of the earlier airports stay, and no request is issued and
\* no file is written for that airport or a later one.
C10_NoRequestForFailedAirport ==
    /\ DriverOrder
    /\ dpc = "aborted" =>
           /\ files = {ExpectedCsv(k) : k \in 1..(airport - 1)}
           /\ \A k \in airport..Len(config.selected_airports) :
                  /\ Count(log, "weather_api", k) = 0
                  /\ Count(log, "to_csv", k) = 0

\* C10 amended: ... and when the fetch of an airport raises the run stops
\* there, the CSVs of the earlier airports stay, no file is written for that
\* airport or a later one and no request is issued for a later one; for the
\* airport that failed a request was issued (once) unless the error is
\* InvalidParameters.
C10_DriverStopsAtFailure ==
    /\ DriverOrder
    /\ dpc = "aborted" =>
           /\ pc = "raised"
           /\ files = {ExpectedCsv(k) : k \in 1..(airport - 1)}
           /\ \A k \in airport..Len(config.selected_airports) :
                  /\ Count(log, "to_csv", k) = 0
                  /\ Count(log, "makedirs", k) = 0
                  /\ Count(log, "returned", k) = 0
           /\ \A k \in (airport + 1)..Len(config.selected_airports) :
                  EventsOf(log, k) = <<>>
           /\ Count(log, "weather_api", airport) =
                  (IF raised.kind = "InvalidParameters" THEN 0 ELSE 1)

\* the first airport's CSV is written and the second airport's fetch raised
C10_Witness ==
    /\ dpc = "aborted"
    /\ airport = 2
    /\ files = {ExpectedCsv(1)}
    /\ Count(log, "weather_api", 2) = 1

====
